---- MODULE Spec2Model ----
(***************************************************************************)
(* Lifecycle of hadoop_g5k.cluster.HadoopCluster, and of                   *)
(* hadoop_g5k.ecosystem.cassandra.CassandraCluster on the same hosts.      *)
(*                                                                         *)
(* The controller is single threaded: every public method runs to          *)
(* completion (or raises) before the next one is called, so each public    *)
(* method is one action.  A method is translated as an operator from the   *)
(* controller record `s` (and the outcomes `o` of the remote commands it   *)
(* may run) to the controller record after the call.  A raised exception   *)
(* is the field `exc`; a method body is skipped once `exc` is set, which   *)
(* is how Python unwinds the callers.                                      *)
(***************************************************************************)
EXTENDS Integers, Sequences, FiniteSets, TLC

\* ---------------------------------------------------------------- bounds
\* Number of hosts handed to the constructor (hosts[0] is the master).
MaxHosts == 2
\* Process ids a host may hold when the controller is constructed.
MaxPid == 1

\* ------------------------------------------------------------- constants
Hosts == 1..MaxHosts
Pids == 1..MaxPid

\* Names that __force_clean looks for in the output of jps.
hadoop_processes ==
    {"DataNode", "SecondaryNameNode", "JobTracker", "TaskTracker", "NameNode"}

\* Names a line of jps output may carry in the model: one that is tracked
\* and one that is not.
ProcNames == {"DataNode", "Jps"}
NoProc == "-"
\* The name of a process of which jps prints the id alone.
NoName == ""

\* Physical clusters (hardware classes) a host may belong to.
Clusters == {"uni", "multi"}

CORE_CONF_FILE == "core-site.xml"
HDFS_CONF_FILE == "hdfs-site.xml"
MR_CONF_FILE == "mapred-site.xml"

DEFAULT_HADOOP_HDFS_PORT == 54310
DEFAULT_HADOOP_MR_PORT == 54311

\* self.conf_dir and self.hadoop_temp_dir, at their defaults.
conf_dir == "/tmp/hadoop/conf"
hadoop_temp_dir == "/tmp/hadoop/tmp"

\* The *.xml files of a configuration directory.
XmlFiles == {CORE_CONF_FILE, HDFS_CONF_FILE, MR_CONF_FILE}

\* An xml configuration file is the function from the names of its
\* properties to their values.  EmptyXml has no property; the files the
\* distribution archive brings have none.
EmptyXml == [n \in {} |-> ""]
DistributionConf == [f \in XmlFiles |-> EmptyXml]

NoExc == "none"
None == "<None>"

VARIABLES
    initialized,         \* HadoopCluster.initialized
    running,             \* HadoopCluster.running
    running_dfs,         \* HadoopCluster.running_dfs
    running_map_reduce,  \* HadoopCluster.running_map_reduce
    temp_conf_dir,       \* self.temp_conf_dir: "unset", "present", "removed"
    java_home,           \* whether self.java_home was assigned
    host_cluster,        \* get_host_cluster(h) for every host
    host_attrs,          \* per hardware class: smt_size and ram_size (in KiB)
    procs,               \* per host: pid -> name of the live process, or NoProc
    conf,                \* per host: the xml files of its conf_dir
    shared_tmp_dir,      \* whether /tmp/mliroz_temp_hadoop/ exists
    cassandra_initialized,  \* CassandraCluster.initialized
    cassandra_running,      \* CassandraCluster.running
    op,                  \* the last public method called
    args,                \* its argument, or None
    pre,                 \* controller and hosts at that call
    log,                 \* what that call ran and wrote, in order
    exc,                 \* the exception that call raised, or NoExc
    ret                  \* the value that call returned, or None

vars == <<initialized, running, running_dfs, running_map_reduce, temp_conf_dir,
          java_home, host_cluster, host_attrs, procs, conf, shared_tmp_dir,
          cassandra_initialized, cassandra_running, op, args, pre, log, exc,
          ret>>

\* hosts[0]
master == 1

\* The elements of a list.
Range(list) == {list[i] : i \in DOMAIN list}

\* Host.address
address(h) == "host" \o ToString(h)

\* ----------------------------------------------------- controller record
\* The controller, the hosts it talks to and the local disk, as the methods
\* see them.  files is the content of self.temp_conf_dir and tmp_dir the
\* content of /tmp/mliroz_temp_hadoop/ while a call works on them.
Self ==
    [initialized |-> initialized, running |-> running,
     running_dfs |-> running_dfs, running_map_reduce |-> running_map_reduce,
     temp_conf_dir |-> temp_conf_dir, java_home |-> java_home,
     procs |-> procs, conf |-> conf,
     shared_tmp_dir |-> shared_tmp_dir, files |-> DistributionConf,
     tmp_dir |-> DistributionConf, ret |-> None, log |-> <<>>, exc |-> NoExc]

Flags(s) ==
    [initialized |-> s.initialized, running |-> s.running,
     running_dfs |-> s.running_dfs,
     running_map_reduce |-> s.running_map_reduce]

\* A blocking remote call (SshProcess.run, Action.run): it is issued and has
\* exited, with finished_ok = ok, before the next statement runs.  Like
\* every statement, it is skipped when an exception is unwinding the call.
\* The entry keeps the flags the controller held when the call was issued.
\* A local step the properties speak of is entered the same way, on no
\* host.
Run(s, cmd, args_, on, ok) ==
    IF s.exc # NoExc THEN s
    ELSE [s EXCEPT !.log = Append(@, [cmd |-> cmd, args |-> args_, on |-> on,
                                      ok |-> ok, at |-> Flags(s)])]

Raise(s, e) == [s EXCEPT !.exc = e]

\* self.<field> = value
Assign(s, field, value) ==
    IF s.exc # NoExc THEN s ELSE [s EXCEPT ![field] = value]

\* The statements Rest, run on what the statements before them left.
Then(s, Rest(_)) == IF s.exc # NoExc THEN s ELSE Rest(s)

\* proc.run(); if not proc.finished_ok: warn; else: self.<field> = value
RunAndSet(s, cmd, ok, field, value) ==
    IF ok THEN Assign(Run(s, cmd, {}, {master}, ok), field, value)
    ELSE Run(s, cmd, {}, {master}, ok)

\* ------------------------------------------------------------- outcomes
\* The orders in which os.listdir may yield the xml files of a directory:
\* the call does not sort them.
ScanOrders ==
    {scan \in [1..3 -> XmlFiles] : \A i, j \in 1..3 : i # j => scan[i] # scan[j]}

\* What the operator's command may print on stdout and on stderr.
CommandOutputs == {"", "Found 1 items"}

\* The lines `hadoop version` may print.
VersionOutputs ==
    {<<>>, <<"Hadoop 0.20.2">>, <<"Hadoop 1.2.1", "Subversion">>,
     <<"Hadoop 2.7.1">>}

\* finished_ok of every remote command a call may run.  put is per hardware
\* class and kill per host; order is the iteration order of the
\* host_clusters dict and scan the order of os.listdir, which the language
\* leaves open; dpkg is check_packages.ok, version the output of
\* `hadoop version`, stdout and stderr the output of the operator's command.
\* The outcome of jps and of the transfers from a host is never read and is
\* logged as ok.
Outcomes ==
    [start_dfs : BOOLEAN, start_mapred : BOOLEAN, safemode : BOOLEAN,
     stop_dfs : BOOLEAN, stop_mapred : BOOLEAN, format : BOOLEAN,
     put : [Clusters -> BOOLEAN], kill : [Hosts -> BOOLEAN],
     blank : [Hosts -> BOOLEAN],
     rm_history : BOOLEAN, rm_logs : BOOLEAN, rm_data : BOOLEAN,
     order : {<<"uni", "multi">>, <<"multi", "uni">>},
     scan : ScanOrders, dpkg : BOOLEAN, install : BOOLEAN,
     version : VersionOutputs, stdout : CommandOutputs,
     stderr : CommandOutputs]

AllOk ==
    [start_dfs |-> TRUE, start_mapred |-> TRUE, safemode |-> TRUE,
     stop_dfs |-> TRUE, stop_mapred |-> TRUE, format |-> TRUE,
     put |-> [c \in Clusters |-> TRUE], kill |-> [h \in Hosts |-> TRUE],
     blank |-> [h \in Hosts |-> FALSE],
     rm_history |-> TRUE, rm_logs |-> TRUE, rm_data |-> TRUE,
     order |-> <<"uni", "multi">>,
     scan |-> <<CORE_CONF_FILE, HDFS_CONF_FILE, MR_CONF_FILE>>,
     dpkg |-> TRUE, install |-> TRUE, version |-> <<"Hadoop 1.2.1">>,
     stdout |-> "", stderr |-> ""]

\* ------------------------------------------------- configuration files
\* hadoop_g5k.util.replace_in_xml_file: the value of property `name` of the
\* file is replaced; a property the file lacks is appended when
\* create_if_absent is set.  changed is the value returned.
replace_in_xml_file(file, name, value, create_if_absent) ==
    IF name \in DOMAIN file \/ create_if_absent
    THEN [file |-> [n \in DOMAIN file \cup {name} |->
                       IF n = name THEN value ELSE file[n]],
          changed |-> TRUE]
    ELSE [file |-> file, changed |-> FALSE]

\* hadoop_g5k.util.get_xml_params: the value the file gives each of the
\* names, None for a name it lacks.
get_xml_params(file, param_names) ==
    [n \in Range(param_names) |->
        IF n \in DOMAIN file THEN file[n] ELSE None]

\* list.remove(p) for every p of names: the first occurrence of each goes.
RECURSIVE remove_each(_, _, _)
remove_each(list, names, i) ==
    IF i > Len(list) THEN <<>>
    ELSE (IF list[i] \in names /\ \A j \in 1..(i - 1) : list[j] # list[i]
          THEN <<>> ELSE <<list[i]>>) \o remove_each(list, names, i + 1)

\* A transfer of the files of directory src into directory dst.
copy_into(dst, src) ==
    [f \in DOMAIN dst \cup DOMAIN src |->
        IF f \in DOMAIN src THEN src[f] ELSE dst[f]]

\* --------------------------------------------------------------- methods
MUT_check_initialization_no_raise(s) == s

_check_initialization(s) ==
    IF s.exc # NoExc THEN s
    ELSE IF ~s.initialized
         THEN Raise(s, "HadoopNotInitializedException")
         ELSE s

MUT_start_dfs_no_guard(s, o) ==
    Then(_check_initialization(s),
         LAMBDA x : RunAndSet(x, "start-dfs.sh", o.start_dfs,
                              "running_dfs", TRUE))

start_dfs(s, o) ==
    Then(_check_initialization(s),
         LAMBDA x : IF x.running_dfs THEN x
                    ELSE RunAndSet(x, "start-dfs.sh", o.start_dfs,
                                   "running_dfs", TRUE))

start_dfs_and_wait(s, o) ==
    RunAndSet(start_dfs(_check_initialization(s), o),
              "dfsadmin -safemode wait", o.safemode, "running_dfs", TRUE)

MUT_start_map_reduce_inverted(s, o) ==
    Then(_check_initialization(s),
         LAMBDA x : IF x.running_map_reduce THEN x
                    ELSE IF o.start_mapred
                         THEN Run(x, "start-mapred.sh", {}, {master}, TRUE)
                         ELSE Assign(Run(x, "start-mapred.sh", {}, {master},
                                         FALSE),
                                     "running_map_reduce", TRUE))

start_map_reduce(s, o) ==
    Then(_check_initialization(s),
         LAMBDA x : IF x.running_map_reduce THEN x
                    ELSE RunAndSet(x, "start-mapred.sh", o.start_mapred,
                                   "running_map_reduce", TRUE))

start_map_reduce_and_wait(s, o) ==
    start_map_reduce(_check_initialization(s), o)

MUT_start_map_reduce_first(s, o) ==
    Assign(start_dfs(start_map_reduce(_check_initialization(s), o), o),
           "running", TRUE)

start(s, o) ==
    Assign(start_map_reduce(start_dfs(_check_initialization(s), o), o),
           "running", TRUE)

start_and_wait(s, o) ==
    Assign(start_map_reduce_and_wait(
               start_dfs_and_wait(_check_initialization(s), o), o),
           "running", TRUE)

stop_dfs(s, o) ==
    RunAndSet(_check_initialization(s), "stop-dfs.sh", o.stop_dfs,
              "running_dfs", FALSE)

stop_map_reduce(s, o) ==
    RunAndSet(_check_initialization(s), "stop-mapred.sh", o.stop_mapred,
              "running_map_reduce", FALSE)

stop(s, o) ==
    Assign(stop_dfs(stop_map_reduce(_check_initialization(s), o), o),
           "running", FALSE)

\* if <test>: self.stop()   and   if <test>: self.start()
stop_if(test, s, o) == IF test THEN stop(s, o) ELSE s
start_if(test, s, o) == IF test THEN start(s, o) ELSE s

\* shutil.rmtree(self.temp_conf_dir): the attribute exists only once
\* _copy_base_conf has run, the directory only until it is removed.
clean_conf(s) ==
    IF s.exc # NoExc THEN s
    ELSE IF s.temp_conf_dir = "unset" THEN Raise(s, "AttributeError")
    ELSE IF s.temp_conf_dir = "removed" THEN Raise(s, "OSError")
    ELSE [s EXCEPT !.temp_conf_dir = "removed"]

\* restart is set where the cluster is stopped, from running at entry.
clean_history(s, o) ==
    IF s.exc # NoExc THEN s
    ELSE start_if(s.running,
                  Run(stop_if(s.running, s, o),
                      "rm -rf logs/history", {}, {master},
                      o.rm_history),
                  o)

clean_logs(s, o) ==
    IF s.exc # NoExc THEN s
    ELSE start_if(s.running,
                  Run(stop_if(s.running, s, o),
                      "rm -rf logs/*", {}, Hosts, o.rm_logs),
                  o)

\* The first test stops the cluster, so the second one, which is the one
\* that sets restart, reads running after that stop.
clean_data(s, o) ==
    IF s.exc # NoExc THEN s
    ELSE Then(stop_if(s.running, s, o),
              LAMBDA x : start_if(x.running,
                                  Run(stop_if(x.running, x, o),
                                      "rm -rf hadoop_temp_dir", {}, Hosts,
                                      o.rm_data),
                                  o))

clean(s, o) ==
    IF s.exc # NoExc THEN s
    ELSE Assign(clean_data(clean_logs(clean_conf(stop_if(s.running, s, o)),
                                      o), o),
                "initialized", FALSE)

\* The ids of the lines of jps, run on the master, that name a Hadoop
\* process.
ids_to_kill(s) ==
    {pid \in Pids : s.procs[master][pid] \in hadoop_processes}

\* if ids_to_kill: SshProcess("kill -9" + ids, h).run().  kill -9 ends the
\* listed processes of h when it succeeds.
kill_on(s, h, ids, ok) ==
    IF s.exc # NoExc \/ ids = {} THEN s
    ELSE IF ~ok THEN Run(s, "kill -9", ids, {h}, ok)
    ELSE [Run(s, "kill -9", ids, {h}, ok) EXCEPT !.procs[h] =
             [pid \in Pids |-> IF pid \in ids THEN NoProc ELSE @[pid]]]

\* One turn of the loop of __force_clean for host h: jps is run on the
\* master, and the ids it lists are killed on h.
\* field[1] of a line that holds no second field: an id alone, or an
\* empty line.
no_second_field(s, h, o) ==
    o.blank[h] \/ \E pid \in Pids : s.procs[master][pid] = NoName

force_kill_host(s, h, o) ==
    IF no_second_field(s, h, o)
    THEN Then(Run(s, "jps", {}, {master}, TRUE),
              LAMBDA x : Raise(x, "IndexError"))
    ELSE kill_on(Run(s, "jps", {}, {master}, TRUE), h, ids_to_kill(s),
                 o.kill[h])

RECURSIVE force_kill_from(_, _, _)
force_kill_from(s, h, o) ==
    IF h > MaxHosts THEN s
    ELSE force_kill_from(force_kill_host(s, h, o), h + 1, o)

__force_clean(s, o) ==
    IF s.exc # NoExc THEN s
    ELSE clean_data(clean_logs(force_kill_from(s, 1, o), o), o)

MUT_pre_initialize_no_clean(s, o) == Assign(s, "initialized", FALSE)

_pre_initialize(s, o) ==
    IF s.exc # NoExc THEN s
    ELSE Assign(IF s.initialized
                THEN clean(stop_if(s.running, s, o), o)
                ELSE __force_clean(s, o),
                "initialized", FALSE)

\* tempfile.mkdtemp: a new directory on every call.  The entry keeps what
\* self.temp_conf_dir was before: the directory it named, if still
\* "present", is not removed here and nothing names it any more.
mkdtemp(s) ==
    IF s.exc # NoExc THEN s
    ELSE Run([s EXCEPT !.temp_conf_dir = "present"], "mkdtemp",
             {s.temp_conf_dir}, {}, TRUE)

\* The local base configuration directory is the default "conf", which does
\* not exist: the three mandatory files are fetched from the master.
_copy_base_conf(s) ==
    Then(mkdtemp(s),
         LAMBDA x : Run(Assign(x, "files", x.conf[master]),
                        "get conf", {}, {master}, TRUE))

\* host_clusters[c]
cluster_hosts(c) == {h \in Hosts : host_cluster[h] = c}

\* The reference host of a group is its first one.
reference_host(hosts) == CHOOSE h \in hosts : \A g \in hosts : h <= g

\* The reference API describes a host by its hardware class.  ram_size is
\* held in KiB, so that 16 GiB is a number TLC can hold: dividing the bytes
\* by 1024 * 1024 is dividing the KiB by 1024.
get_host_attributes(h) == host_attrs[host_cluster[h]]

num_cores(h) == get_host_attributes(h).smt_size

total_memory_mb(h) == (get_host_attributes(h).ram_size \div 1024) - 2 * 1024

MUT_mem_per_slot_all_cores(h) == total_memory_mb(h) \div num_cores(h)

\* Integer division of Python 2, which rounds down as \div does.
mem_per_slot_mb(h) == total_memory_mb(h) \div (num_cores(h) - 1)

\* replace_in_xml_file(os.path.join(self.temp_conf_dir, f), name, value,
\* True), while the group `hosts` is being configured.
Write(s, hosts, f, name, value) ==
    IF s.exc # NoExc THEN s
    ELSE [s EXCEPT
             !.files[f] = replace_in_xml_file(@, name, value, TRUE).file,
             !.log = Append(@, [cmd |-> "replace_in_xml_file",
                                args |-> {<<f, name, value>>}, on |-> hosts,
                                ok |-> TRUE, at |-> Flags(s)])]

write_core(s, hosts) ==
    Write(Write(Write(s, hosts, CORE_CONF_FILE, "fs.default.name",
                      "hdfs://" \o address(master) \o ":"
                          \o ToString(DEFAULT_HADOOP_HDFS_PORT) \o "/"),
                hosts, CORE_CONF_FILE, "hadoop.tmp.dir", hadoop_temp_dir),
          hosts, CORE_CONF_FILE, "topology.script.file.name",
          conf_dir \o "/topo.sh")

write_slots(s, hosts, slots) ==
    Write(Write(Write(s, hosts, MR_CONF_FILE, "mapred.job.tracker",
                      address(master) \o ":"
                          \o ToString(DEFAULT_HADOOP_MR_PORT)),
                hosts, MR_CONF_FILE, "mapred.tasktracker.map.tasks.maximum",
                ToString(slots)),
          hosts, MR_CONF_FILE, "mapred.tasktracker.reduce.tasks.maximum",
          ToString(slots))

write_memory(s, hosts, mem) ==
    IF mem <= 0 THEN s
    ELSE Write(s, hosts, MR_CONF_FILE, "mapred.child.java.opts",
               "-Xmx" \o ToString(mem) \o "m")

\* The quotient is computed before anything is written.
_configure_servers(s, hosts) ==
    IF s.exc # NoExc THEN s
    ELSE IF num_cores(reference_host(hosts)) - 1 = 0
         THEN Raise(s, "ZeroDivisionError")
         ELSE write_memory(
                  write_slots(write_core(s, hosts), hosts,
                              num_cores(reference_host(hosts)) - 1),
                  hosts, mem_per_slot_mb(reference_host(hosts)))

\* TaktukPut of the files of a local directory (dir names the field that
\* holds them) into conf_dir of the hosts.  The copy is only warned about
\* when it fails.
_copy_conf(s, dir, hosts, ok) ==
    IF s.exc # NoExc \/ ~ok THEN Run(s, "put conf", {}, hosts, ok)
    ELSE [Run(s, "put conf", {}, hosts, ok) EXCEPT !.conf =
             [h \in Hosts |-> IF h \in hosts THEN copy_into(@[h], s[dir])
                              ELSE @[h]]]

\* The keys of host_clusters, in the order the dict yields them.
cluster_order(o) ==
    SelectSeq(o.order, LAMBDA c : cluster_hosts(c) # {})

\* Every group is configured in the one self.temp_conf_dir.
RECURSIVE configure_from(_, _, _, _)
configure_from(s, order, i, o) ==
    IF i > Len(order) THEN s
    ELSE configure_from(
             _copy_conf(_configure_servers(s, cluster_hosts(order[i])),
                        "files", cluster_hosts(order[i]), o.put[order[i]]),
             order, i + 1, o)

\* Formatting is only warned about when it fails.
format_dfs(s, o) == Run(s, "namenode -format", {}, {master}, o.format)

initialize(s, o) ==
    Assign(format_dfs(configure_from(_copy_base_conf(_pre_initialize(s, o)),
                                     cluster_order(o), 1, o),
                      o),
           "initialized", TRUE)

\* `ls conf_dir/*.xml` on host h, os.makedirs(tmp_dir) when it is missing,
\* and the Get of the listed files into it.  Every host holds the three xml
\* files, so the fetch replaces whatever an earlier one left in tmp_dir.
fetch_xml(s, h) ==
    Then(Run(s, "ls conf_dir/*.xml", {}, {h}, TRUE),
         LAMBDA x : Run([x EXCEPT !.shared_tmp_dir = TRUE,
                                  !.tmp_dir = copy_into(@, x.conf[h])],
                        "get xml", {}, {h}, TRUE))

\* The files of a directory that hold a property another file holds too.
held_twice(dir) ==
    {f \in XmlFiles :
        \E g \in XmlFiles \ {f} : DOMAIN dir[f] \cap DOMAIN dir[g] # {}}

\* os.listdir(tmp_dir): the order in which it yields the files is the
\* order in which the call scans them, and all it decides is which of the
\* files that hold the same property is taken first: the entry keeps the
\* order of those files.
listdir(s, o) ==
    Run(s, "os.listdir",
        {SelectSeq(o.scan, LAMBDA f : f \in held_twice(s.tmp_dir))}, {},
        TRUE)

\* Variant: the parameter is always written to mapred-site.xml, whichever
\* file holds it.
MUT_replace_first_always_fallback(dir, scan, i, name, value) ==
    [dir EXCEPT ![MR_CONF_FILE] =
        replace_in_xml_file(@, name, value, TRUE).file]

\* for f in temp_conf_files: if replace_in_xml_file(f, name, value): break
\* else: replace_in_xml_file(tmp_dir + MR_CONF_FILE, name, value, True)
RECURSIVE replace_first(_, _, _, _, _)
replace_first(dir, scan, i, name, value) ==
    IF i > Len(scan)
    THEN [dir EXCEPT ![MR_CONF_FILE] =
             replace_in_xml_file(@, name, value, TRUE).file]
    ELSE IF replace_in_xml_file(dir[scan[i]], name, value, FALSE).changed
         THEN [dir EXCEPT ![scan[i]] =
                  replace_in_xml_file(@, name, value, FALSE).file]
         ELSE replace_first(dir, scan, i + 1, name, value)

\* for name, value in params.iteritems(): the names of a dict differ, so
\* the order in which they are taken does not show in the result.
next_name(names) == CHOOSE n \in names : TRUE

RECURSIVE replace_params(_, _, _, _)
replace_params(dir, scan, params, names) ==
    IF names = {} THEN dir
    ELSE replace_params(
             replace_first(dir, scan, 1, next_name(names),
                           params[next_name(names)]),
             scan, params, names \ {next_name(names)})

\* One turn of the loop of change_conf, for the group `hosts`.
change_conf_group(s, hosts, params, o, ok) ==
    Then(listdir(fetch_xml(s, reference_host(hosts)), o),
         LAMBDA x : _copy_conf(
                        Assign(x, "tmp_dir",
                               replace_params(x.tmp_dir, o.scan, params,
                                              DOMAIN params)),
                        "tmp_dir", hosts, ok))

RECURSIVE change_conf_from(_, _, _, _, _)
change_conf_from(s, order, i, params, o) ==
    IF i > Len(order) THEN s
    ELSE change_conf_from(
             change_conf_group(s, cluster_hosts(order[i]), params, o,
                               o.put[order[i]]),
             order, i + 1, params, o)

\* Variant: a running cluster is stopped before it is reconfigured.
MUT_change_conf_stops(s, params, o) ==
    change_conf_from(stop_if(s.running, s, o), cluster_order(o), 1, params, o)

change_conf(s, params, o) ==
    change_conf_from(s, cluster_order(o), 1, params, o)

\* if fparams[p]: a value that is None or empty is not taken.
taken(file, remaining) ==
    {p \in Range(remaining) :
        get_xml_params(file, remaining)[p] \notin {None, ""}}

\* for f in temp_conf_files: ... params[p] = fparams[p];
\* remaining_param_names.remove(p)
RECURSIVE collect_params(_, _, _, _, _)
collect_params(dir, scan, i, remaining, params) ==
    IF i > Len(scan) THEN params
    ELSE collect_params(
             dir, scan, i + 1,
             remove_each(remaining, taken(dir[scan[i]], remaining), 1),
             [p \in DOMAIN params \cup taken(dir[scan[i]], remaining) |->
                 IF p \in taken(dir[scan[i]], remaining)
                 THEN get_xml_params(dir[scan[i]], remaining)[p]
                 ELSE params[p]])

get_conf(s, param_names, o) ==
    Then(listdir(fetch_xml(s, master), o),
         LAMBDA x : Assign(x, "ret",
                           collect_params(x.tmp_dir, o.scan, 1, param_names,
                                          [p \in {} |-> None])))

MUT_execute_no_start(s, o, should_be_running) ==
    Then(_check_initialization(s),
         LAMBDA x : Assign(Run(x, "hadoop command", {}, {master}, TRUE),
                           "ret", <<o.stdout, o.stderr>>))

\* return (proc.stdout, proc.stderr)
execute(s, o, should_be_running) ==
    Then(_check_initialization(s),
         LAMBDA x : Assign(Run(start_if(should_be_running /\ ~x.running, x,
                                        o),
                               "hadoop command", {}, {master}, TRUE),
                           "ret", <<o.stdout, o.stderr>>))

execute_job(s, o) ==
    Then(_check_initialization(s),
         LAMBDA x : Assign(Run(Run(start_if(~x.running, x, o),
                                   "put job files", {}, {master}, TRUE),
                               "hadoop jar", {}, {master}, TRUE),
                           "ret", <<o.stdout, o.stderr>>))

\* check_packages.run(); the packages are installed when it is not ok.
check_packages(s, o) ==
    IF o.dpkg THEN Run(s, "dpkg -s", {}, Hosts, TRUE)
    ELSE Run(Run(s, "dpkg -s", {}, Hosts, FALSE),
             "apt-get install", {}, Hosts, o.install)

\* The installation directories are removed and the archive is unpacked in
\* their place, which leaves the configuration files of the distribution
\* on every host.
install_archive(s) ==
    Run(Run(Assign(Run(Assign(Run(s, "get java home", {}, {master}, TRUE),
                              "java_home", TRUE),
                       "rm dirs; put tar; tar xf", {}, Hosts, TRUE),
                   "conf", [h \in Hosts |-> DistributionConf]),
            "mv; mkdir; chmod", {}, Hosts, TRUE),
        "cat >> hadoop-env.sh", {}, Hosts, TRUE)

\* version = proc.stdout.splitlines()[0]
\* "export JAVA_HOME=" + self.java_home: an attribute that bootstrap alone
\* assigns.
get_version(s, o) ==
    Then(Run(IF s.java_home THEN s ELSE Raise(s, "AttributeError"),
             "hadoop version", {}, {master}, TRUE),
         LAMBDA x : IF Len(o.version) = 0 THEN Raise(x, "IndexError")
                    ELSE Assign(x, "ret", o.version[1]))

\* str.startswith
startswith(str, prefix) ==
    Len(str) >= Len(prefix) /\ SubSeq(str, 1, Len(prefix)) = prefix

MUT_check_version_compliance_always(s, o) ==
    Assign(get_version(s, o), "ret", TRUE)

_check_version_compliance(s, o) ==
    Then(get_version(s, o),
         LAMBDA x : Assign(x, "ret",
                           startswith(x.ret, "Hadoop 0.")
                               \/ startswith(x.ret, "Hadoop 1.")))

bootstrap(s, o) ==
    _check_version_compliance(install_archive(check_packages(s, o)), o)

\* ----------------------------------------------------- CassandraCluster
\* The Cassandra controller as its methods see it.  None of them raises:
\* the outcome of a remote command is at most logged.
CassandraSelf ==
    [initialized |-> cassandra_initialized, running |-> cassandra_running,
     log |-> <<>>, exc |-> NoExc]

\* action.run() of a Remote, TaktukRemote or SequentialActions.
cassandra_run(c, cmd, on, ok) ==
    [c EXCEPT !.log = Append(@, [cmd |-> cmd, args |-> {}, on |-> on,
                                 ok |-> ok,
                                 at |-> [initialized |-> c.initialized,
                                         running |-> c.running]])]

\* hosts[0], the seed, and hosts[1:]
seeds == master
nodes == Hosts \ {seeds}

\* finished_ok of start_seeds and of start_nodes; no other outcome is read.
CassandraOutcomes == [start_seeds : BOOLEAN, start_nodes : BOOLEAN]

\* The last statement assigns a local variable named initialized, not the
\* attribute: the controller is left as it was.
cassandra_bootstrap(c) ==
    cassandra_run(
        cassandra_run(
            cassandra_run(
                cassandra_run(
                    cassandra_run(c, "rm dirs; put tar; mkdir; tar xzf", Hosts,
                                  TRUE),
                    "cat >> start-cassandra.sh", Hosts, TRUE),
                "cat >> stop-cassandra.sh", Hosts, TRUE),
            "cat >> adjust_conf.py", Hosts, TRUE),
        "mkdir; chmod", Hosts, TRUE)

_configure_nodes(c) == cassandra_run(c, "adjust_conf.py", Hosts, TRUE)

\* self._pre_initialize() is commented out.
cassandra_initialize(c) ==
    [_configure_nodes(c) EXCEPT !.initialized = TRUE]

\* SequentialActions([start_seeds, start_nodes]).run()
start_seeds_and_nodes(c, o) ==
    cassandra_run(cassandra_run(c, "start-cassandra.sh", {seeds},
                                o.start_seeds),
                  "start-cassandra.sh", nodes, o.start_nodes)

cassandra_start(c, o) ==
    IF ~c.initialized THEN c
    ELSE IF c.running THEN c
    ELSE IF ~o.start_seeds \/ ~o.start_nodes
         THEN start_seeds_and_nodes(c, o)
         ELSE [start_seeds_and_nodes(c, o) EXCEPT !.running = TRUE]

cassandra_stop(c) ==
    [cassandra_run(c, "stop-cassandra.sh", Hosts, TRUE) EXCEPT
        !.running = FALSE]

cassandra_stop_if(test, c) == IF test THEN cassandra_stop(c) ELSE c

cassandra_clean_conf(c) ==
    cassandra_run(c, "rm -rf conf/cassandra.yaml", Hosts, TRUE)

cassandra_clean_data(c) == cassandra_run(c, "rm -rf data/*", Hosts, TRUE)

cassandra_clean_logs(c) == cassandra_run(c, "rm -rf logs/*", Hosts, TRUE)

\* Variant: the cluster is not stopped before it is cleaned.
MUT_cassandra_clean_no_stop(c) ==
    [cassandra_clean_data(cassandra_clean_conf(c)) EXCEPT
        !.initialized = FALSE]

cassandra_clean(c) ==
    [cassandra_clean_data(cassandra_clean_conf(
         cassandra_stop_if(c.running, c))) EXCEPT !.initialized = FALSE]

\* ------------------------------------------------------------ the machine
\* The hardware of the two classes of the lifecycle specifications: a
\* one-core class and an eight-core class with 4 GiB and 16 GiB.
ReferenceAttrs ==
    [c \in Clusters |->
        IF c = "uni" THEN [smt_size |-> 1, ram_size |-> 4 * 1024 * 1024]
        ELSE [smt_size |-> 8, ram_size |-> 16 * 1024 * 1024]]

\* __init__: the class-level defaults.  Fresh is what the initial
\* conditions share; they differ in what is on the hosts.
Fresh ==
    /\ initialized = FALSE
    /\ running = FALSE
    /\ running_dfs = FALSE
    /\ running_map_reduce = FALSE
    /\ temp_conf_dir = "unset"
    /\ java_home = FALSE
    /\ host_cluster \in [Hosts -> Clusters]
    /\ shared_tmp_dir = FALSE
    /\ cassandra_initialized = FALSE
    /\ cassandra_running = FALSE
    /\ op = "__init__"
    /\ args = None
    /\ pre = [initialized |-> FALSE, running |-> FALSE, running_dfs |-> FALSE,
              running_map_reduce |-> FALSE, temp_conf_dir |-> "unset",
              procs |-> procs, conf |-> conf]
    /\ log = <<>>
    /\ exc = NoExc
    /\ ret = None

\* A fleet on which no earlier run left a process: the kill of
\* __force_clean has nothing to do, the rest of every method is as below.
Init ==
    /\ procs = [h \in Hosts |-> [pid \in Pids |-> NoProc]]
    /\ conf = [h \in Hosts |-> DistributionConf]
    /\ host_attrs = ReferenceAttrs
    /\ Fresh

\* A fleet on which earlier runs may have left any processes.
InitRecovery ==
    /\ procs \in [Hosts -> [Pids -> ProcNames \cup {NoName, NoProc}]]
    /\ conf = [h \in Hosts |-> DistributionConf]
    /\ host_attrs = ReferenceAttrs
    /\ Fresh

\* The call `name` with argument a took the controller from Self to r.
Call(name, a, r) ==
    /\ op' = name
    /\ args' = a
    /\ pre' = [initialized |-> initialized, running |-> running,
               running_dfs |-> running_dfs,
               running_map_reduce |-> running_map_reduce,
               temp_conf_dir |-> temp_conf_dir, procs |-> procs,
               conf |-> conf]
    /\ initialized' = r.initialized
    /\ running' = r.running
    /\ running_dfs' = r.running_dfs
    /\ running_map_reduce' = r.running_map_reduce
    /\ temp_conf_dir' = r.temp_conf_dir
    /\ java_home' = r.java_home
    /\ procs' = r.procs
    /\ conf' = r.conf
    /\ shared_tmp_dir' = r.shared_tmp_dir
    /\ log' = r.log
    /\ exc' = r.exc
    /\ ret' = r.ret
    /\ UNCHANGED <<host_cluster, host_attrs, cassandra_initialized,
                   cassandra_running>>

\* The outcomes a call can meet: a command the call cannot issue from the
\* current state is left at its default, since nothing reads its outcome.
BoolIf(issued) == IF issued THEN BOOLEAN ELSE {TRUE}

StartOutcomes ==
    {[AllOk EXCEPT !.start_dfs = a, !.start_mapred = b] :
        a \in BoolIf(initialized /\ ~running_dfs),
        b \in BoolIf(initialized /\ ~running_map_reduce)}

StartWaitOutcomes ==
    {[AllOk EXCEPT !.start_dfs = a, !.start_mapred = b, !.safemode = c] :
        a \in BoolIf(initialized /\ ~running_dfs),
        b \in BoolIf(initialized /\ ~running_map_reduce),
        c \in BoolIf(initialized)}

StopOutcomes ==
    {[AllOk EXCEPT !.stop_dfs = a, !.stop_mapred = b] :
        a \in BoolIf(initialized), b \in BoolIf(initialized)}

\* A start made for the operator's command, and what the command prints.
ExecuteOutcomes ==
    {[AllOk EXCEPT !.start_dfs = a, !.start_mapred = b, !.stdout = c,
                   !.stderr = d] :
        a \in BoolIf(initialized /\ ~running /\ ~running_dfs),
        b \in BoolIf(initialized /\ ~running /\ ~running_map_reduce),
        c \in IF initialized THEN CommandOutputs ELSE {AllOk.stdout},
        d \in IF initialized THEN CommandOutputs ELSE {AllOk.stderr}}

\* A cleaning call stops a running cluster, removes, and may start it again;
\* clean_data never does, having stopped it before it looks.
HaltOutcomes ==
    {[AllOk EXCEPT !.stop_dfs = a, !.stop_mapred = b] :
        a \in BoolIf(running), b \in BoolIf(running)}

RestartOutcomes ==
    UNION {{[o EXCEPT !.start_dfs = c, !.start_mapred = d] :
               c \in BoolIf(running /\ (o.stop_dfs \/ ~running_dfs)),
               d \in BoolIf(running /\ (o.stop_mapred \/ ~running_map_reduce))} :
           o \in HaltOutcomes}

\* clean() removes the logs and the data with two commands, and starts
\* nothing.
CleanOutcomes ==
    {[o EXCEPT !.rm_logs = e, !.rm_data = f] :
        o \in HaltOutcomes, e \in BoolIf(temp_conf_dir = "present"),
        f \in BoolIf(temp_conf_dir = "present")}

\* The kills of the forced path: one per host, issued while jps on the
\* master lists a tracked process, which a successful kill on the master
\* ends.
KillOutcomes ==
    {k \in [Hosts -> BOOLEAN] :
        \A h \in Hosts :
            ~k[h] => /\ ~initialized
                     /\ ids_to_kill(Self) # {}
                     /\ h = master \/ ~k[master]}

\* The forced path in which the output of the jps run for host h holds an
\* empty line: the kills of the hosts before h were issued, nothing after.
BlankOutcomes ==
    IF initialized THEN {}
    ELSE {[AllOk EXCEPT !.blank = [g \in Hosts |-> g = h],
                        !.kill = [g \in Hosts |-> g >= h \/ k[g]]] :
              h \in Hosts, k \in KillOutcomes}

\* The outcomes of the copies to the groups that exist, and the orders in
\* which the groups may be taken.
PutOutcomes ==
    {g \in [Clusters -> BOOLEAN] :
        \A k \in Clusters : cluster_hosts(k) = {} => g[k]}

GroupOrders ==
    IF \A k \in Clusters : cluster_hosts(k) # {}
    THEN {<<"uni", "multi">>, <<"multi", "uni">>}
    ELSE {<<"uni", "multi">>}

\* initialize() ends at the first group whose reference host has one core
\* (the division by num_cores - 1): the copies to the groups taken after it
\* and the formatting are not issued.  On an initialized controller whose
\* directory is gone it ends in clean_conf, after the stop.
InitializeOutcomes ==
    IF ~initialized /\ no_second_field(Self, master, AllOk) THEN {AllOk}
    ELSE IF initialized /\ temp_conf_dir = "removed" THEN HaltOutcomes
    ELSE BlankOutcomes \cup
         UNION {{[AllOk EXCEPT !.stop_dfs = a, !.stop_mapred = b, !.kill = c,
                               !.rm_logs = d, !.rm_data = e, !.put = p,
                               !.format = f, !.order = q] :
                    a \in BoolIf(running), b \in BoolIf(running),
                    c \in KillOutcomes, d \in BOOLEAN, e \in BOOLEAN,
                    p \in {g \in PutOutcomes :
                              \A k \in Clusters :
                                  ~g[k] =>
                                      \E i \in DOMAIN q :
                                          /\ q[i] = k
                                          /\ \A j \in 1..i :
                                                 \/ cluster_hosts(q[j]) = {}
                                                 \/ host_attrs[q[j]].smt_size # 1},
                    f \in BoolIf(\A k \in Clusters :
                                     \/ cluster_hosts(k) = {}
                                     \/ host_attrs[k].smt_size # 1)} :
                q \in GroupOrders}

\* The orders of os.listdir that a call can tell apart: every order when
\* some host holds a property in two files, and one order otherwise.
ListOrders ==
    IF \E h \in Hosts : held_twice(conf[h]) # {} THEN ScanOrders
    ELSE {AllOk.scan}

ConfOutcomes ==
    {[AllOk EXCEPT !.put = p, !.order = q, !.scan = c] :
        p \in PutOutcomes, q \in GroupOrders, c \in ListOrders}

ScanOutcomes == {[AllOk EXCEPT !.scan = c] : c \in ListOrders}

BootstrapOutcomes ==
    {o \in {[AllOk EXCEPT !.dpkg = a, !.install = b, !.version = v] :
                a \in BOOLEAN, b \in BOOLEAN, v \in VersionOutputs} :
        o.dpkg => o.install}

\* The names and values the operator passes to change_conf and get_conf: a
\* name no method writes, and for get_conf also one that initialize writes;
\* a value may be the empty string.
ParamNames == {"x.y.z"}
ParamValues == {"42", ""}
QueryNames == {"x.y.z", "mapred.job.tracker"}
QueryLists ==
    {<<>>} \cup {<<n>> : n \in QueryNames}
           \cup {<<n, m>> : n \in QueryNames, m \in QueryNames}

\* A new controller for the same hosts.
Construct ==
    /\ initialized' = FALSE
    /\ running' = FALSE
    /\ running_dfs' = FALSE
    /\ running_map_reduce' = FALSE
    /\ temp_conf_dir' = "unset"
    /\ java_home' = FALSE
    /\ op' = "__init__"
    /\ args' = None
    /\ pre' = [initialized |-> FALSE, running |-> FALSE,
               running_dfs |-> FALSE, running_map_reduce |-> FALSE,
               temp_conf_dir |-> "unset", procs |-> procs, conf |-> conf]
    /\ log' = <<>>
    /\ exc' = NoExc
    /\ ret' = None
    /\ UNCHANGED <<host_cluster, host_attrs, procs, conf, shared_tmp_dir,
                   cassandra_initialized, cassandra_running>>

Bootstrap ==
    \E o \in BootstrapOutcomes :
        Call("bootstrap", o.version, bootstrap(Self, o))

Initialize ==
    \E o \in InitializeOutcomes :
        Call("initialize", None, initialize(Self, o))

Start == \E o \in StartOutcomes : Call("start", None, start(Self, o))

StartAndWait ==
    \E o \in StartWaitOutcomes :
        Call("start_and_wait", None, start_and_wait(Self, o))

StartDfs ==
    \E o \in {x \in StartOutcomes : x.start_mapred} :
        Call("start_dfs", None, start_dfs(Self, o))

StartDfsAndWait ==
    \E o \in {x \in StartWaitOutcomes : x.start_mapred} :
        Call("start_dfs_and_wait", None, start_dfs_and_wait(Self, o))

StartMapReduce ==
    \E o \in {x \in StartOutcomes : x.start_dfs} :
        Call("start_map_reduce", None, start_map_reduce(Self, o))

StartMapReduceAndWait ==
    \E o \in {x \in StartOutcomes : x.start_dfs} :
        Call("start_map_reduce_and_wait", None,
             start_map_reduce_and_wait(Self, o))

Stop == \E o \in StopOutcomes : Call("stop", None, stop(Self, o))

StopDfs ==
    \E o \in {x \in StopOutcomes : x.stop_mapred} :
        Call("stop_dfs", None, stop_dfs(Self, o))

StopMapReduce ==
    \E o \in {x \in StopOutcomes : x.stop_dfs} :
        Call("stop_map_reduce", None, stop_map_reduce(Self, o))

Execute ==
    \E should_be_running \in BOOLEAN :
        \E o \in {x \in ExecuteOutcomes :
                      should_be_running \/ (x.start_dfs /\ x.start_mapred)} :
            Call("execute", should_be_running,
                 execute(Self, o, should_be_running))

ExecuteJob ==
    \E o \in ExecuteOutcomes :
        Call("execute_job", None, execute_job(Self, o))

CleanConf == Call("clean_conf", None, clean_conf(Self))

CleanHistory ==
    \E o \in RestartOutcomes, e \in BOOLEAN :
        Call("clean_history", None,
             clean_history(Self, [o EXCEPT !.rm_history = e]))

CleanLogs ==
    \E o \in RestartOutcomes, e \in BOOLEAN :
        Call("clean_logs", None, clean_logs(Self, [o EXCEPT !.rm_logs = e]))

CleanData ==
    \E o \in HaltOutcomes, e \in BOOLEAN :
        Call("clean_data", None, clean_data(Self, [o EXCEPT !.rm_data = e]))

Clean == \E o \in CleanOutcomes : Call("clean", None, clean(Self, o))

GetVersion ==
    \E v \in IF java_home THEN VersionOutputs ELSE {AllOk.version} :
        Call("get_version", None,
             get_version(Self, [AllOk EXCEPT !.version = v]))

\* change_conf({name: value})
ChangeConf ==
    \E o \in ConfOutcomes, name \in ParamNames, value \in ParamValues :
        Call("change_conf", [n \in {name} |-> value],
             change_conf(Self, [n \in {name} |-> value], o))

\* get_conf(param_names)
GetConf ==
    \E o \in ScanOutcomes, param_names \in QueryLists :
        Call("get_conf", param_names, get_conf(Self, param_names, o))

\* The call `name` took the Cassandra controller from CassandraSelf to r.
CassandraCall(name, r) ==
    /\ op' = name
    /\ args' = None
    /\ pre' = [initialized |-> cassandra_initialized,
               running |-> cassandra_running]
    /\ cassandra_initialized' = r.initialized
    /\ cassandra_running' = r.running
    /\ log' = r.log
    /\ exc' = r.exc
    /\ ret' = None
    /\ UNCHANGED <<initialized, running, running_dfs, running_map_reduce,
                   temp_conf_dir, java_home, host_cluster, host_attrs, procs, conf,
                   shared_tmp_dir>>

\* A new Cassandra controller for the same hosts: the class-level defaults.
CassandraConstruct ==
    CassandraCall("cassandra.__init__",
                  [CassandraSelf EXCEPT !.initialized = FALSE,
                                        !.running = FALSE])

CassandraBootstrap ==
    CassandraCall("cassandra.bootstrap", cassandra_bootstrap(CassandraSelf))

CassandraInitialize ==
    CassandraCall("cassandra.initialize", cassandra_initialize(CassandraSelf))

CassandraStart ==
    \E o \in CassandraOutcomes :
        CassandraCall("cassandra.start", cassandra_start(CassandraSelf, o))

CassandraStop == CassandraCall("cassandra.stop", cassandra_stop(CassandraSelf))

CassandraClean ==
    CassandraCall("cassandra.clean", cassandra_clean(CassandraSelf))

CassandraCleanConf ==
    CassandraCall("cassandra.clean_conf", cassandra_clean_conf(CassandraSelf))

CassandraCleanData ==
    CassandraCall("cassandra.clean_data", cassandra_clean_data(CassandraSelf))

CassandraCleanLogs ==
    CassandraCall("cassandra.clean_logs", cassandra_clean_logs(CassandraSelf))

Next ==
    \/ Construct
    \/ Bootstrap
    \/ Initialize
    \/ Start
    \/ StartAndWait
    \/ StartDfs
    \/ StartDfsAndWait
    \/ StartMapReduce
    \/ StartMapReduceAndWait
    \/ Stop
    \/ StopDfs
    \/ StopMapReduce
    \/ Execute
    \/ ExecuteJob
    \/ CleanConf
    \/ CleanHistory
    \/ CleanLogs
    \/ CleanData
    \/ Clean
    \/ ChangeConf
    \/ GetConf
    \/ GetVersion

Spec == Init /\ [][Next]_vars

\* The lifecycle alone: every public method but the two that read and write
\* the configuration files, which touch nothing the others test.
NextLifecycle ==
    \/ Construct
    \/ Bootstrap
    \/ Initialize
    \/ Start
    \/ StartAndWait
    \/ StartDfs
    \/ StartDfsAndWait
    \/ StartMapReduce
    \/ StartMapReduceAndWait
    \/ Stop
    \/ StopDfs
    \/ StopMapReduce
    \/ Execute
    \/ ExecuteJob
    \/ CleanConf
    \/ CleanHistory
    \/ CleanLogs
    \/ CleanData
    \/ Clean
    \/ GetVersion

SpecLifecycle == Init /\ [][NextLifecycle]_vars

NextCassandra ==
    \/ CassandraConstruct
    \/ CassandraBootstrap
    \/ CassandraInitialize
    \/ CassandraStart
    \/ CassandraStop
    \/ CassandraClean
    \/ CassandraCleanConf
    \/ CassandraCleanData
    \/ CassandraCleanLogs

SpecCassandra == Init /\ [][NextCassandra]_vars

\* The two controllers, each called in any order: every public method of
\* the Hadoop controller but change_conf and get_conf, which assign no flag
\* (NextLifecycle holds bootstrap and get_version), and every method of the
\* Cassandra one.
NextClusters ==
    \/ NextLifecycle
    \/ NextCassandra

SpecClusters == Init /\ [][NextClusters]_vars

\* The two controllers side by side, for the calls they share: each step is
\* one call of one of them, with the outcomes of its own remote commands.
NextPair ==
    \/ Initialize
    \/ Start
    \/ Stop
    \/ Clean
    \/ CassandraInitialize
    \/ CassandraStart
    \/ CassandraStop
    \/ CassandraClean

SpecPair == Init /\ [][NextPair]_vars

\* Recovery is about what initialize finds; the calls that decide it.
NextRecovery ==
    \/ Construct
    \/ Initialize
    \/ Start
    \/ Stop
    \/ Clean

SpecRecovery == InitRecovery /\ [][NextRecovery]_vars

\* Reconfiguration: hosts whose files may already hold the operator's
\* property, in the file every method appends to or in another one.
InitialConfs ==
    {DistributionConf,
     [DistributionConf EXCEPT ![CORE_CONF_FILE] = [n \in {"x.y.z"} |-> "41"]],
     [DistributionConf EXCEPT ![MR_CONF_FILE] = [n \in {"x.y.z"} |-> "41"]]}

InitConf ==
    /\ procs = [h \in Hosts |-> [pid \in Pids |-> NoProc]]
    /\ conf \in [Hosts -> InitialConfs]
    /\ host_attrs = ReferenceAttrs
    /\ Fresh

NextConf ==
    \/ Initialize
    \/ ChangeConf
    \/ GetConf

SpecConf == InitConf /\ [][NextConf]_vars

\* Hosts whose files hold the operator's property twice, which the
\* distribution does not bring about but an administrator's edit may.
DuplicatedConf ==
    [DistributionConf EXCEPT ![CORE_CONF_FILE] = [n \in {"x.y.z"} |-> "40"],
                             ![MR_CONF_FILE] = [n \in {"x.y.z"} |-> "41"]]

InitDuplicated ==
    /\ procs = [h \in Hosts |-> [pid \in Pids |-> NoProc]]
    /\ conf = [h \in Hosts |-> DuplicatedConf]
    /\ host_attrs = ReferenceAttrs
    /\ Fresh

NextDuplicated ==
    \/ ChangeConf
    \/ GetConf

SpecDuplicated == InitDuplicated /\ [][NextDuplicated]_vars

\* Reconfiguration of a cluster in any stage of its lifecycle.
NextLive ==
    \/ Initialize
    \/ Start
    \/ StopDfs
    \/ ChangeConf
    \/ GetConf

SpecLive == Init /\ [][NextLive]_vars

\* Sizing: the hardware the reference API may report for a class.  The
\* memory sizes are 1 GiB, 2049.5 MiB and 16 GiB.
SizingAttrs ==
    [smt_size : {1, 2, 8},
     ram_size : {1024 * 1024, 2049 * 1024 + 512, 16 * 1024 * 1024}]

InitSizing ==
    /\ procs = [h \in Hosts |-> [pid \in Pids |-> NoProc]]
    /\ conf = [h \in Hosts |-> DistributionConf]
    /\ host_attrs \in {[ReferenceAttrs EXCEPT !["multi"] = a] :
                          a \in SizingAttrs}
    /\ Fresh

NextSizing ==
    \/ Initialize
    \/ Construct

SpecSizing == InitSizing /\ [][NextSizing]_vars

\* A mixed fleet: each class is either of small machines (2 cores, 1 GiB,
\* for which the quotient is negative) or of large ones (8 cores, 16 GiB).
FleetAttrs ==
    {[smt_size |-> 2, ram_size |-> 1024 * 1024],
     [smt_size |-> 8, ram_size |-> 16 * 1024 * 1024]}

InitFleet ==
    /\ procs = [h \in Hosts |-> [pid \in Pids |-> NoProc]]
    /\ conf = [h \in Hosts |-> DistributionConf]
    /\ host_attrs \in [Clusters -> FleetAttrs]
    /\ Fresh

NextFleet ==
    \/ Initialize
    \/ Construct

SpecFleet == InitFleet /\ [][NextFleet]_vars

\* ------------------------------------------------------------ properties
FlagsNow ==
    [initialized |-> initialized, running |-> running,
     running_dfs |-> running_dfs, running_map_reduce |-> running_map_reduce]

AllFalse ==
    [initialized |-> FALSE, running |-> FALSE, running_dfs |-> FALSE,
     running_map_reduce |-> FALSE]

\* The names of the commands the last call ran, in order.
Cmds == [i \in 1..Len(log) |-> log[i].cmd]

Ran(cmd) == \E i \in 1..Len(log) : log[i].cmd = cmd

Failed(cmd) == \E i \in 1..Len(log) : log[i].cmd = cmd /\ ~log[i].ok

\* C1: a call of start, start_and_wait, stop, execute or execute_job on a
\* controller that is not initialized raises the not-initialized exception,
\* runs no remote command and changes no flag; on a freshly constructed
\* controller the four flags are therefore still all false.
C1_NotInitializedRaises ==
    (op \in {"start", "start_and_wait", "stop", "execute", "execute_job"}
     /\ ~pre.initialized)
    => /\ exc = "HadoopNotInitializedException"
       /\ log = <<>>
       /\ FlagsNow = Flags(pre)
       /\ (Flags(pre) = AllFalse => FlagsNow = AllFalse)

C1_Witness ==
    /\ op = "start"
    /\ Flags(pre) = AllFalse
    /\ pre.temp_conf_dir = "unset"
    /\ exc = "HadoopNotInitializedException"
    /\ FlagsNow = AllFalse

\* C2: whenever initialize returns without raising, initialized is true and
\* running is false.
C2_InitializePost ==
    (op = "initialize" /\ exc = NoExc) => (initialized /\ ~running)

C2_Witness ==
    /\ op = "initialize"
    /\ exc = NoExc
    /\ pre.initialized
    /\ pre.running
    /\ initialized
    /\ ~running

\* C3: after a start on an initialized controller in which every remote
\* start command that was issued reported success, running, running_dfs and
\* running_map_reduce are all true.
C3_StartPost ==
    (op = "start" /\ pre.initialized /\ exc = NoExc
     /\ \A i \in 1..Len(log) : log[i].ok)
    => (running /\ running_dfs /\ running_map_reduce)

C3_Witness ==
    /\ op = "start"
    /\ pre.initialized
    /\ ~pre.running /\ ~pre.running_dfs /\ ~pre.running_map_reduce
    /\ Cmds = <<"start-dfs.sh", "start-mapred.sh">>
    /\ \A i \in 1..Len(log) : log[i].ok
    /\ running /\ running_dfs /\ running_map_reduce

\* C4: after stop returns on an initialized controller, running,
\* running_dfs and running_map_reduce are all false, whatever the remote
\* stop commands reported.
C4_StopClearsAllFlags ==
    (op = "stop" /\ pre.initialized /\ exc = NoExc)
    => (~running /\ ~running_dfs /\ ~running_map_reduce)

\* C5: in every reachable state running is true if and only if running_dfs
\* and running_map_reduce are both true.
C5_RunningIffBothSubsystems ==
    running <=> (running_dfs /\ running_map_reduce)

\* C6: if start-dfs.sh reports failure during start, start-mapred.sh is not
\* issued and running, running_dfs and running_map_reduce keep the values
\* they had before the call.
C6_StrictStart ==
    (op = "start" /\ Failed("start-dfs.sh"))
    => /\ ~Ran("start-mapred.sh")
       /\ running = pre.running
       /\ running_dfs = pre.running_dfs
       /\ running_map_reduce = pre.running_map_reduce

\* C7: if the distribution of the configuration to some host group, or the
\* format command, reports failure during initialize, the call ends with
\* initialized false.
C7_InitializeNeedsEverySubStep ==
    (op = "initialize"
     /\ (Failed("put conf") \/ Failed("namenode -format")))
    => ~initialized

ConfigurationSteps ==
    {"mkdtemp", "get conf", "replace_in_xml_file", "put conf",
     "namenode -format"}

\* C8: when initialize is called with initialized false, every process of
\* a tracked name that is alive on a host h at the call is the target of a
\* kill issued on h, before any configuration step of that call.  (Stated
\* for the calls that return normally, so that a violation does not rest on
\* a call that was cut short by an exception.)
C8_ForcedRecoveryKillsLeftovers ==
    (op = "initialize" /\ ~pre.initialized /\ exc = NoExc)
    => \A h \in Hosts, pid \in Pids :
          pre.procs[h][pid] \in hadoop_processes
          => \E i \in 1..Len(log) :
                /\ log[i].cmd = "kill -9"
                /\ h \in log[i].on
                /\ pid \in log[i].args
                /\ \A j \in 1..Len(log) :
                      log[j].cmd \in ConfigurationSteps => i < j

\* C9: in start, start-dfs.sh has exited before start-mapred.sh is issued;
\* in stop, stop-mapred.sh has exited before stop-dfs.sh is issued.  A call
\* that has to run both commands runs exactly these two, in that order.
C9_PhaseOrder ==
    /\ op = "start"
       => /\ \A i, j \in 1..Len(log) :
                (log[i].cmd = "start-dfs.sh" /\ log[j].cmd = "start-mapred.sh")
                => i < j
          /\ (pre.initialized /\ ~pre.running_dfs /\ ~pre.running_map_reduce)
             => Cmds = <<"start-dfs.sh", "start-mapred.sh">>
    /\ op = "stop"
       => /\ \A i, j \in 1..Len(log) :
                (log[i].cmd = "stop-mapred.sh" /\ log[j].cmd = "stop-dfs.sh")
                => i < j
          /\ pre.initialized => Cmds = <<"stop-mapred.sh", "stop-dfs.sh">>

C9_Witness ==
    /\ op = "start"
    /\ Len(log) = 2
    /\ log[1].cmd = "start-dfs.sh"
    /\ log[2].cmd = "start-mapred.sh"
    /\ ~log[1].ok

C9_WitnessStop ==
    /\ op = "stop"
    /\ Cmds = <<"stop-mapred.sh", "stop-dfs.sh">>

\* C10: start_dfs called while running_dfs is true, and start_map_reduce
\* called while running_map_reduce is true, run no remote command and change
\* no flag; start on a controller whose running, running_dfs and
\* running_map_reduce are all true leaves the whole state as it was.
C10_StartIdempotent ==
    /\ (op = "start_dfs" /\ pre.running_dfs)
       => (log = <<>> /\ FlagsNow = Flags(pre))
    /\ (op = "start_map_reduce" /\ pre.running_map_reduce)
       => (log = <<>> /\ FlagsNow = Flags(pre))
    /\ (op = "start" /\ pre.running /\ pre.running_dfs
        /\ pre.running_map_reduce)
       => /\ log = <<>>
          /\ FlagsNow = Flags(pre)
          /\ temp_conf_dir = pre.temp_conf_dir
          /\ procs = pre.procs

C10_Witness ==
    /\ op = "start_dfs"
    /\ pre.initialized
    /\ pre.running_dfs
    /\ exc = NoExc
    /\ log = <<>>

\* C11: after clean returns, initialized, running, running_dfs and
\* running_map_reduce are all false, whatever the remote stop and removal
\* commands reported.
C11_CleanPost ==
    (op = "clean" /\ exc = NoExc)
    => (~initialized /\ ~running /\ ~running_dfs /\ ~running_map_reduce)

RemovalCommands == {"rm -rf logs/*", "rm -rf hadoop_temp_dir"}

\* C12: whenever clean, clean_logs or clean_data issues a remote removal
\* command, running, running_dfs and running_map_reduce are all false at
\* that moment.
C12_CleanOnlyWhenStopped ==
    op \in {"clean", "clean_logs", "clean_data"}
    => \A i \in 1..Len(log) :
          log[i].cmd \in RemovalCommands
          => (~log[i].at.running /\ ~log[i].at.running_dfs
              /\ ~log[i].at.running_map_reduce)

\* The part of C12 that the code keeps: running is false at every removal.
C12_RunningFalseAtRemoval ==
    op \in {"clean", "clean_logs", "clean_data"}
    => \A i \in 1..Len(log) :
          log[i].cmd \in RemovalCommands => ~log[i].at.running

\* C13: bootstrap, called in any state, leaves initialized, running,
\* running_dfs and running_map_reduce as they were; when the first line that
\* `hadoop version` prints starts with neither "Hadoop 0." nor "Hadoop 1."
\* the call returns False, with no flag changed.
C13_BootstrapFrame ==
    op = "bootstrap"
    => /\ FlagsNow = Flags(pre)
       /\ (Len(args) > 0
           /\ SubSeq(args[1], 1, 9) \notin {"Hadoop 0.", "Hadoop 1."})
          => (exc = NoExc /\ ret = FALSE)

C13_Witness ==
    /\ op = "bootstrap"
    /\ args = <<"Hadoop 2.7.1">>
    /\ pre.initialized /\ pre.running /\ pre.running_dfs
    /\ initialized /\ running /\ running_dfs
    /\ ret = FALSE

\* Every flag combination is met by some call of bootstrap.
C13_WitnessFresh ==
    /\ op = "bootstrap"
    /\ Flags(pre) = AllFalse
    /\ args = <<"Hadoop 0.20.2">>
    /\ ret = TRUE

\* C14: a call of initialize in which every remote command reports success
\* returns without raising and leaves initialized true, from whatever state
\* the earlier calls left.  (Stated for fleets without a one-core host, so
\* that a violation does not rest on the division by zero of C17.)
C14_InitializeRecallable ==
    (op = "initialize"
     /\ (\A h \in Hosts : num_cores(h) > 1)
     /\ (\A i \in 1..Len(log) : log[i].ok))
    => (exc = NoExc /\ initialized)

StartCommands == {"start-dfs.sh", "start-mapred.sh"}
OperatorCommands == {"hadoop command", "hadoop jar"}

\* C15: execute with should_be_running true, and execute_job, called on an
\* initialized controller whose running is false, run start before the
\* operator's command: every start command has exited before the command is
\* issued, start-dfs.sh before start-mapred.sh, each phase whose flag was
\* false is started, and running is true when the command is issued.  When
\* running is already true the call issues no start command.
C15_AutoStart ==
    ((op = "execute" /\ args = TRUE) \/ op = "execute_job")
    /\ pre.initialized
    => /\ \E c \in 1..Len(log) :
             /\ log[c].cmd \in OperatorCommands
             /\ log[c].at.running
             /\ \A i \in 1..Len(log) : log[i].cmd \in StartCommands => i < c
       /\ ~pre.running
          => /\ ~pre.running_dfs => Ran("start-dfs.sh")
             /\ ~pre.running_map_reduce => Ran("start-mapred.sh")
             /\ \A i, j \in 1..Len(log) :
                   (log[i].cmd = "start-dfs.sh"
                    /\ log[j].cmd = "start-mapred.sh") => i < j
       /\ pre.running
          => \A i \in 1..Len(log) : log[i].cmd \notin StartCommands

C15_Witness ==
    /\ op = "execute"
    /\ args = TRUE
    /\ pre.initialized
    /\ ~pre.running /\ ~pre.running_dfs /\ ~pre.running_map_reduce
    /\ Cmds = <<"start-dfs.sh", "start-mapred.sh", "hadoop command">>
    /\ running

C15_WitnessJob ==
    /\ op = "execute_job"
    /\ pre.initialized
    /\ ~pre.running
    /\ Cmds = <<"start-dfs.sh", "start-mapred.sh", "put job files",
                "hadoop jar">>
    /\ log[4].at.running

SlotNames ==
    {"mapred.tasktracker.map.tasks.maximum",
     "mapred.tasktracker.reduce.tasks.maximum"}

\* The (file, name, value) written while the group `hosts` was being
\* configured, and the (file, value) written under one name.
Writes(hosts) ==
    UNION {log[i].args : i \in {j \in 1..Len(log) :
                                   /\ log[j].cmd = "replace_in_xml_file"
                                   /\ log[j].on = hosts}}

Written(hosts, name) ==
    {<<w[1], w[3]>> : w \in {x \in Writes(hosts) : x[2] = name}}

Configured(hosts) ==
    \E i \in 1..Len(log) : log[i].cmd = "put conf" /\ log[i].on = hosts

\* The per-slot memory of the sizing policy, from coreCount and ramMB.
PolicyMemory(coreCount, ramMB) == (ramMB - 2048) \div (coreCount - 1)

\* C16: when initialize configures a group whose reference host has
\* coreCount > 1 cores and ramMB of memory, both slot-count settings are
\* written as coreCount - 1, and the memory setting is written if and only
\* if (ramMB - 2048) \div (coreCount - 1) is greater than 0, with that
\* quotient as its value.
C16_SizingPolicy ==
    \A c \in Clusters :
        (op = "initialize" /\ cluster_hosts(c) # {}
         /\ Configured(cluster_hosts(c)) /\ host_attrs[c].smt_size > 1)
        => /\ \A name \in SlotNames :
                 Written(cluster_hosts(c), name)
                     = {<<MR_CONF_FILE, ToString(host_attrs[c].smt_size - 1)>>}
           /\ Written(cluster_hosts(c), "mapred.child.java.opts") # {}
              <=> PolicyMemory(host_attrs[c].smt_size,
                               host_attrs[c].ram_size \div 1024) > 0
           /\ Written(cluster_hosts(c), "mapred.child.java.opts")
                  \subseteq
                  {<<MR_CONF_FILE,
                     "-Xmx" \o ToString(PolicyMemory(
                                   host_attrs[c].smt_size,
                                   host_attrs[c].ram_size \div 1024))
                            \o "m">>}

\* 8 cores and 16384 MB give 7 slots and 2048 MB.
C16_Witness ==
    /\ op = "initialize"
    /\ host_attrs["multi"] = [smt_size |-> 8, ram_size |-> 16384 * 1024]
    /\ cluster_hosts("multi") = Hosts
    /\ Written(Hosts, "mapred.tasktracker.map.tasks.maximum")
           = {<<MR_CONF_FILE, "7">>}
    /\ Written(Hosts, "mapred.child.java.opts")
           = {<<MR_CONF_FILE, "-Xmx2048m">>}

\* A quotient of 0 (8 cores, 2049 MB): the slots are written, the memory
\* setting is not.
C16_WitnessNoMemory ==
    /\ op = "initialize"
    /\ host_attrs["multi"] = [smt_size |-> 8, ram_size |-> 2049 * 1024 + 512]
    /\ cluster_hosts("multi") = Hosts
    /\ Written(Hosts, "mapred.tasktracker.map.tasks.maximum")
           = {<<MR_CONF_FILE, "7">>}
    /\ Written(Hosts, "mapred.child.java.opts") = {}

\* C17: when initialize sizes a group whose reference host has one core, no
\* exception is raised by the sizing, neither slot-count setting nor the
\* memory setting is written for the group, and the group is configured (its
\* files are copied to it).  (Stated for calls on a controller that is not
\* initialized, where nothing before the sizing can raise.)
C17_OneCoreGroup ==
    \A c \in Clusters :
        (op = "initialize" /\ ~pre.initialized /\ cluster_hosts(c) # {}
         /\ host_attrs[c].smt_size = 1)
        => /\ exc = NoExc
           /\ Configured(cluster_hosts(c))
           /\ \A name \in SlotNames \cup {"mapred.child.java.opts"} :
                 Written(cluster_hosts(c), name) = {}

LogOk == \A i \in 1..Len(log) : log[i].ok

\* The files fetched for the group of host h at the last call, and the
\* files among them that held `name`.
Fetched(h) == pre.conf[reference_host(cluster_hosts(host_cluster[h]))]

Holders(dir, name) == {f \in XmlFiles : name \in DOMAIN dir[f]}

\* After a change_conf({name: value}) in which every command succeeded: on
\* each host, `name` is in mapred-site.xml alone when the fetched files of
\* its group lacked it, and otherwise in exactly the files that held it,
\* with the new value.
ChangeConfWritten ==
    (op = "change_conf" /\ exc = NoExc /\ LogOk)
    => \A h \in Hosts, name \in DOMAIN args :
          /\ Holders(conf[h], name)
                 = IF Holders(Fetched(h), name) = {} THEN {MR_CONF_FILE}
                   ELSE Holders(Fetched(h), name)
          /\ \A f \in Holders(conf[h], name) : conf[h][f][name] = args[name]

\* A get_conf of the names of the change_conf that came just before it
\* returns the values that were set.
ChangeConfReadBack(names) ==
    (op = "change_conf" /\ exc = NoExc /\ LogOk /\ DOMAIN args = names
     /\ op' = "get_conf" /\ exc' = NoExc /\ Range(args') = names)
    => \A name \in names :
          name \in DOMAIN ret' /\ ret'[name] = args[name]

\* C18: change_conf({k: v}) appends k = v to mapred-site.xml on a group
\* whose fetched files lack k, and overwrites the value in the file that
\* holds k, adding it to no other file, on a group whose files contain k;
\* in both cases the get_conf([k]) that follows returns v for k.
C18_ChangeConf ==
    [][ChangeConfWritten' /\ ChangeConfReadBack({"x.y.z"})]_vars

\* The same, for the values that are not the empty string.
C18_NonEmptyValue ==
    [][((op' = "change_conf" /\ \A n \in DOMAIN args' : args'[n] # "")
            => ChangeConfWritten')
       /\ ((op = "change_conf" /\ \A n \in DOMAIN args : args[n] # "")
            => ChangeConfReadBack({"x.y.z"}))]_vars

\* A change_conf that ran to its end with every command succeeding.
ChangeConfDone == op = "change_conf" /\ exc = NoExc /\ LogOk

NoDuplicatedKey ==
    \A h \in Hosts, name \in ParamNames :
        Cardinality(Holders(conf[h], name)) <= 1

\* C19: a change_conf applied right after a change_conf with the same
\* parameters leaves the configuration files of every host as the first
\* one left them (same keys, values and containing file), and no key is
\* held by two files of a host.
C19_Idempotent ==
    [][(ChangeConfDone /\ ChangeConfDone' /\ args' = args)
       => (conf' = conf /\ NoDuplicatedKey /\ NoDuplicatedKey')]_vars

\* The second of two equal change_conf calls has run, on hosts whose
\* core-site.xml held the key before the first one.
C19_Witness ==
    /\ ChangeConfDone
    /\ conf = pre.conf
    /\ \A h \in Hosts, name \in DOMAIN args :
          /\ Holders(conf[h], name) = {CORE_CONF_FILE}
          /\ conf[h][CORE_CONF_FILE][name] = args[name]

\* The same, on hosts whose files lacked the key before the first call.
C19_WitnessAppended ==
    /\ ChangeConfDone
    /\ conf = pre.conf
    /\ \A h \in Hosts, name \in DOMAIN args :
          /\ Holders(conf[h], name) = {MR_CONF_FILE}
          /\ conf[h][MR_CONF_FILE][name] = "42"

\* C20: the scratch directories of initialize() and change_conf() are
\* released: whenever _copy_base_conf makes a new temporary directory, the
\* directory that self.temp_conf_dir named until then has been deleted,
\* and change_conf() does not leave its scratch directory behind.
C20_ScratchReleased ==
    /\ op \in {"initialize", "change_conf"}
       => \A i \in 1..Len(log) :
             log[i].cmd = "mkdtemp" => "present" \notin log[i].args
    /\ op = "change_conf" => ~shared_tmp_dir

\* The part of C20 about initialize() alone.
C20_InitializeScratch ==
    op = "initialize"
    => \A i \in 1..Len(log) :
          log[i].cmd = "mkdtemp" => "present" \notin log[i].args

\* The sizing-derived settings of mapred-site.xml that the policy gives a
\* group whose reference host is r: the slot counts, and the memory option
\* exactly when the quotient is positive.
SizedFor(file, r) ==
    /\ "mapred.tasktracker.map.tasks.maximum" \in DOMAIN file
    /\ file["mapred.tasktracker.map.tasks.maximum"] = ToString(num_cores(r) - 1)
    /\ "mapred.tasktracker.reduce.tasks.maximum" \in DOMAIN file
    /\ file["mapred.tasktracker.reduce.tasks.maximum"]
           = ToString(num_cores(r) - 1)
    /\ IF mem_per_slot_mb(r) > 0
       THEN /\ "mapred.child.java.opts" \in DOMAIN file
            /\ file["mapred.child.java.opts"]
                   = "-Xmx" \o ToString(mem_per_slot_mb(r)) \o "m"
       ELSE "mapred.child.java.opts" \notin DOMAIN file

\* C21: after an initialize() of a fleet that held the distribution's
\* files, in which every command succeeded, the sizing-derived settings in
\* the configuration of each host are those of its own group's reference
\* host: slot counts, per-slot memory and the absence of a memory setting
\* depend on no other group and not on the order of the groups.
C21_IndependentTuning ==
    (op = "initialize" /\ exc = NoExc /\ LogOk
     /\ \A h \in Hosts : pre.conf[h] = DistributionConf)
    => \A h \in Hosts :
          SizedFor(conf[h][MR_CONF_FILE],
                   reference_host(cluster_hosts(host_cluster[h])))

\* The same for a fleet of one group, or of two groups of equal hardware.
C21_UniformFleet ==
    (host_attrs["uni"] = host_attrs["multi"]
     \/ \E c \in Clusters : cluster_hosts(c) = {})
    => C21_IndependentTuning

\* What a call leaves: the controller's fields and what is on the hosts.
Left ==
    <<initialized, running, running_dfs, running_map_reduce, temp_conf_dir,
      procs, conf>>

\* C22: clean() completes without raising in every state, also on a
\* controller that was never initialized and right after a clean(), and
\* leaves initialized and running false; a clean() that follows a clean()
\* leaves everything as the first one did.
C22_CleanConverges ==
    [][/\ op' = "clean" => (exc' = NoExc /\ ~initialized' /\ ~running')
       /\ (op = "clean" /\ op' = "clean") => Left' = Left]_vars

\* The part of C22 about the exception alone.
C22_CleanNeverRaises == op = "clean" => exc = NoExc

\* Entry j of the log comes after an entry of command cmd.
Preceded(j, cmd) == \E i \in 1..Len(log) : i < j /\ log[i].cmd = cmd

\* C23: an initialize() called with initialized true issues no command of
\* the forced path (jps, kill -9), stops the cluster first when it is
\* running, and has removed the logs, the data and the previous
\* configuration directory before its first configuration step; an
\* initialize() called with initialized false removes the logs and the data
\* but leaves the previous configuration directory as it was.
C23_GracefulPath ==
    op = "initialize"
    => IF pre.initialized
       THEN /\ ~Ran("jps") /\ ~Ran("kill -9")
            /\ pre.running
               => /\ Len(log) >= 2
                  /\ log[1].cmd = "stop-mapred.sh"
                  /\ log[2].cmd = "stop-dfs.sh"
            /\ \A j \in 1..Len(log) :
                  log[j].cmd \in ConfigurationSteps
                  => /\ Preceded(j, "rm -rf logs/*")
                     /\ Preceded(j, "rm -rf hadoop_temp_dir")
                     /\ pre.running => Preceded(j, "stop-dfs.sh")
                     /\ log[j].cmd = "mkdtemp" => log[j].args = {"removed"}
       ELSE /\ Ran("jps")
            /\ Ran("rm -rf logs/*") /\ Ran("rm -rf hadoop_temp_dir")
            /\ ~Ran("stop-dfs.sh") /\ ~Ran("stop-mapred.sh")
            /\ \A j \in 1..Len(log) :
                  log[j].cmd = "mkdtemp"
                  => log[j].args = {pre.temp_conf_dir}

\* The graceful path was taken on a running cluster while a process of a
\* tracked name was alive, and the configuration was distributed anew.
C23_Witness ==
    /\ op = "initialize"
    /\ pre.initialized
    /\ pre.running
    /\ exc = NoExc
    /\ \E h \in Hosts, pid \in Pids : pre.procs[h][pid] \in hadoop_processes
    /\ Ran("put conf")

\* The forced path was taken while the previous directory still existed.
C23_WitnessForced ==
    /\ op = "initialize"
    /\ ~pre.initialized
    /\ pre.temp_conf_dir = "present"
    /\ Ran("kill -9")
    /\ Ran("mkdtemp")

Succeeded(cmd) == \E i \in 1..Len(log) : log[i].cmd = cmd /\ log[i].ok

\* A flag that the last call turned from false to true was turned by a
\* start command of its subsystem that reported success.
FlagAfterSuccess ==
    /\ (~pre.running_dfs /\ running_dfs) => Succeeded("start-dfs.sh")
    /\ (~pre.running_map_reduce /\ running_map_reduce)
       => Succeeded("start-mapred.sh")

\* C24: in start_dfs(), start_dfs_and_wait(), start() and start_and_wait(),
\* running_dfs changes from false to true only when start-dfs.sh reported
\* success in that call, and running_map_reduce only when start-mapred.sh
\* did.
C24_FlagAfterSuccess ==
    op \in {"start_dfs", "start_dfs_and_wait", "start", "start_and_wait"}
    => FlagAfterSuccess

\* The same for the calls that do not wait for the safe mode to end.
C24_WithoutWait ==
    op \notin {"start_dfs_and_wait", "start_and_wait"} => FlagAfterSuccess

\* The first of the files of dir that hold name, in the order in which the
\* last call listed them.
FirstHolder(dir, name) ==
    IF Cardinality(Holders(dir, name)) = 1
    THEN CHOOSE f \in Holders(dir, name) : TRUE
    ELSE CHOOSE f \in Holders(dir, name) :
             \E i \in 1..Len(log) :
                 /\ log[i].cmd = "os.listdir"
                 /\ \E scan \in log[i].args :
                        /\ Holders(dir, name) \subseteq Range(scan)
                        /\ \E k \in 1..Len(scan) :
                               /\ scan[k] = f
                               /\ \A m \in 1..(k - 1) :
                                      scan[m] \notin Holders(dir, name)

\* After a change_conf in which every command succeeded, on every host the
\* first file of the scan order that held the key, in the files fetched for
\* the host's group, has the new value, and every other file that held it
\* has the value it had.
FirstFileWritten ==
    ChangeConfDone
    => \A h \in Hosts, name \in DOMAIN args :
          Holders(Fetched(h), name) # {}
          => \A f \in XmlFiles :
                conf[h][f]
                    = IF f = FirstHolder(Fetched(h), name)
                      THEN [Fetched(h)[f] EXCEPT ![name] = args[name]]
                      ELSE Fetched(h)[f]

\* After a get_conf, a requested key that a file of the master holds is
\* returned with the value of the first file of the scan order that holds
\* it.
FirstFileRead ==
    (op = "get_conf" /\ exc = NoExc)
    => \A name \in Range(args) :
          Holders(pre.conf[master], name) # {}
          => /\ name \in DOMAIN ret
             /\ ret[name]
                    = pre.conf[master][FirstHolder(pre.conf[master],
                                                   name)][name]

\* C25: when two of the fetched files hold the same key, change_conf
\* modifies only the first of them in the scan order and leaves the other
\* occurrence untouched, and get_conf returns the value of the first of
\* them in the scan order.
C25_FirstFileWins == FirstFileWritten /\ FirstFileRead

\* The read half of C25 on a master none of whose files holds an empty
\* value, for a list that names no property twice.
C25_NonEmptyValues ==
    (/\ op = "get_conf"
     /\ Len(args) = Cardinality(Range(args))
     /\ \A f \in XmlFiles : \A n \in DOMAIN pre.conf[master][f] :
            pre.conf[master][f][n] # "")
    => FirstFileRead

\* C23 on the calls that the output of jps does not end.
C23_ParsedJps == exc # "IndexError" => C23_GracefulPath

StopCommands == {"stop-dfs.sh", "stop-mapred.sh"}

\* C26: change_conf() and get_conf() leave initialized, running,
\* running_dfs and running_map_reduce as they were and issue no start or
\* stop command; get_conf() moreover raises nothing, changes no file of any
\* host, and returns only requested keys, each with a value that a file of
\* the master holds for it, so that a key no file holds is absent.
C26_ConfCallsArePure ==
    /\ op \in {"change_conf", "get_conf"}
       => /\ FlagsNow = Flags(pre)
          /\ \A i \in 1..Len(log) :
                log[i].cmd \notin StartCommands \cup StopCommands
    /\ op = "get_conf"
       => /\ exc = NoExc
          /\ conf = pre.conf
          /\ DOMAIN ret \subseteq Range(args)
          /\ \A name \in DOMAIN ret :
                \E f \in Holders(pre.conf[master], name) :
                    ret[name] = pre.conf[master][f][name]

\* get_conf was called on a running cluster for a key a file holds and a
\* key no file holds, and returned the first alone.
C26_Witness ==
    /\ op = "get_conf"
    /\ running /\ running_dfs /\ running_map_reduce /\ initialized
    /\ args = <<"x.y.z", "mapred.job.tracker">>
    /\ Holders(pre.conf[master], "x.y.z") = {}
    /\ DOMAIN ret = {"mapred.job.tracker"}

\* change_conf was called on a running cluster and changed its files.
C26_WitnessChange ==
    /\ op = "change_conf"
    /\ running /\ running_dfs /\ running_map_reduce /\ initialized
    /\ conf # pre.conf

\* C27: in every reachable state of the Hadoop controller and of the
\* Cassandra controller, running implies initialized.
C27_RunningImpliesInitialized ==
    /\ running => initialized
    /\ cassandra_running => cassandra_initialized

\* Both clusters are running, the Hadoop one after a start in which a
\* command failed.
C27_Witness ==
    /\ running /\ initialized
    /\ ~running_dfs
    /\ cassandra_running /\ cassandra_initialized

\* Both clusters have been running and are cleaned.
C27_WitnessCleaned ==
    /\ op = "cassandra.clean"
    /\ pre.running
    /\ ~cassandra_running /\ ~cassandra_initialized
    /\ ~running /\ ~initialized
    /\ temp_conf_dir = "removed"

\* After a standalone cleaning call in which every command succeeded,
\* running is what it was; a cluster that was running has been stopped,
\* cleaned and started again, in that order, and a cluster that was not has
\* not been started.
RunningPreserved ==
    (exc = NoExc /\ LogOk)
    => /\ running = pre.running
       /\ pre.running
          => /\ Len(log) = 5
             /\ log[1].cmd = "stop-mapred.sh"
             /\ log[2].cmd = "stop-dfs.sh"
             /\ log[3].cmd \in RemovalCommands \cup {"rm -rf logs/history"}
             /\ log[4].cmd = "start-dfs.sh"
             /\ log[5].cmd = "start-mapred.sh"
       /\ ~pre.running
          => \A i \in 1..Len(log) : log[i].cmd \notin StartCommands

\* C28: clean_history(), clean_logs() and clean_data() preserve the running
\* state: on a running cluster each stops it, removes its artifacts and
\* restarts it, and on a stopped cluster none starts it.
C28_CleaningPreservesRunning ==
    op \in {"clean_history", "clean_logs", "clean_data"} => RunningPreserved

\* The same for clean_history() and clean_logs() alone.
C28_HistoryAndLogs ==
    op \in {"clean_history", "clean_logs"} => RunningPreserved

\* C29: after CassandraCluster.bootstrap() the controller is initialized,
\* and a start() that follows it on a cluster that is not running issues
\* the start script.
C29_BootstrapInitializes ==
    [][/\ op' = "cassandra.bootstrap" => cassandra_initialized'
       /\ (op = "cassandra.bootstrap" /\ op' = "cassandra.start"
           /\ ~cassandra_running)
          => \E i \in 1..Len(log') : log'[i].cmd = "start-cassandra.sh"]_vars

\* The part of C29 about the attribute alone.
C29_InitializedAfterBootstrap ==
    op = "cassandra.bootstrap" => cassandra_initialized

\* The k-th start command a call issued: the first is start-dfs.sh or the
\* start of the seeds, the second start-mapred.sh or the start of the other
\* nodes.
PairedStarts == <<"start-dfs.sh", "start-mapred.sh">>

StartResults(l, k) ==
    {l[i].ok : i \in {n \in DOMAIN l : l[n].cmd = PairedStarts[k]}}

CassandraStartResults(l, k) ==
    IF Len(l) = 2 /\ l[k].cmd = "start-cassandra.sh" THEN {l[k].ok} ELSE {}

\* A step in which the Cassandra controller is given the call the Hadoop
\* controller has just returned from, the two pairs having agreed before
\* the Hadoop call, and in which each start command issued by both reports
\* the same.
C30_SameCall ==
    /\ op \in {"initialize", "start", "stop", "clean"}
    /\ op' = "cassandra." \o op
    /\ pre.initialized = cassandra_initialized
    /\ pre.running = cassandra_running
    /\ \A k \in DOMAIN PairedStarts :
           \A a \in StartResults(log, k), b \in CassandraStartResults(log', k) :
               a = b

C30_Agree ==
    /\ initialized' = cassandra_initialized'
    /\ running' = cassandra_running'

\* C30: with the same initialize, start, stop and clean calls made on both
\* controllers and the same outcomes of their remote commands, the Hadoop
\* pair (initialized, running) and the Cassandra pair agree after every
\* call; in particular an initialize() on running clusters leaves both
\* stopped.
C30_SameLifecycle ==
    [][C30_SameCall
       => /\ C30_Agree
          /\ (op = "initialize" /\ pre.running)
             => (~running' /\ ~cassandra_running')]_vars

\* The same after the calls that raise nothing and in which every remote
\* command of both succeeds.
C30_WhenAllSucceeds ==
    [][(C30_SameCall /\ exc = NoExc /\ LogOk /\ LogOk')
       => C30_Agree]_vars

\* The same while no call has raised, no command has failed and no
\* initialize() has been made on a running cluster.
C30_FirstInitialize ==
    [][(/\ C30_SameCall
        /\ exc = NoExc
        /\ LogOk
        /\ LogOk'
        /\ ~(op = "initialize" /\ cassandra_running))
       => C30_Agree]_vars
====
